---- MODULE Spec2Model ----
(***************************************************************************)
(* Consistent-hashing ring of hashring-rs (src/src/lib.rs).                *)
(*                                                                         *)
(* The ring owns three structures: the node registry `nodes`, the ordered  *)
(* hash-space index `sorted_nodes_hash_set` (a BTreeMap<u64, node>) and    *)
(* the partition table `partitions`.  Nodes expose only their id, so a     *)
(* node handle is modelled by its id (a byte string).                      *)
(*                                                                         *)
(* Spec     : one caller, every public method is one atomic action.        *)
(* ConcSpec : several handles (clones sharing the three Arc<RwLock<..>>)   *)
(*            called from several threads; one action per lock operation   *)
(*            and per loop iteration of add_node, remove_node,             *)
(*            distribute_partitions and the lookups.                       *)
(***************************************************************************)
EXTENDS Integers, Sequences, FiniteSets, TLC

\* ------------------------------------------------------------------ bounds
MaxNodes == 3        \* node ids "a", "b", "c", ...
MaxRF == 2           \* replication_factor ranges over 1..MaxRF
MaxPC == 2           \* partition_count ranges over 1..MaxPC
MaxKeyByte == 15     \* keys are the one-byte strings <<0>> .. <<MaxKeyByte>>
MaxMult == 7         \* multipliers of the pluggable hasher family
MaxSeed == 1         \* seeds of the pluggable hasher family
MaxThreads == 2      \* threads, each with its own handle of the ring
MaxCalls == 3        \* ConcSpec: calls made by all threads together
MaxConcNodes == 2    \* ConcSpec: node ids passed to add_node / remove_node
MaxConcKeyByte == 0  \* ConcSpec: keys <<0>> .. <<MaxConcKeyByte>>
MaxConcMult == 4     \* ConcSpec: multipliers of the hasher family
HashModulus == 16    \* the u64 hash space, reduced to 0..HashModulus-1

\* --------------------------------------------------------------- constants
USIZE_BYTES == 8     \* usize::to_ne_bytes yields 8 bytes on 64-bit targets

\* Option<T>: None is the empty sequence, Some(x) the one-element sequence
None == <<>>
Some(x) == <<x>>

VARIABLES
    config,                 \* HashRing.config
    hasher,                 \* HashRing.hasher
    nodes,                  \* HashRing.nodes: the ids in the registry
    sorted_nodes_hash_set,  \* HashRing.sorted_nodes_hash_set: hash -> node
    partitions,             \* HashRing.partitions: partition id -> node
    last,                   \* Spec: the last call, its argument and result
    pc,                     \* ConcSpec: where each thread is in its call
    call,                   \* ConcSpec: the call each thread is running
    loop_i,                 \* ConcSpec: the loop counter (i, part_id)
    ret,                    \* ConcSpec: the value a thread's call returned
    nodes_lock,             \* the RwLock around nodes: its writer, or 0
    index_lock,             \* the RwLock around sorted_nodes_hash_set
    partitions_lock,        \* the RwLock around partitions: its writer, or 0
    writer_priority,        \* whether a waiting writer blocks new readers
    add_stage,              \* history: how far an add_node(id) ever got
    invocations             \* ConcSpec: the number of calls made so far

ring == <<nodes, sorted_nodes_hash_set, partitions>>

threads == <<pc, call, loop_i, ret, nodes_lock, index_lock, partitions_lock,
             writer_priority, add_stage, invocations>>

vars == <<config, hasher, nodes, sorted_nodes_hash_set, partitions, last, pc,
          call, loop_i, ret, nodes_lock, index_lock, partitions_lock,
          writer_priority, add_stage, invocations>>

\* ------------------------------------------------------------- input sets
\* node ids: the one-letter strings "a", "b", ... as byte strings
NodeIds == {<<96 + i>> : i \in 1..MaxNodes}

\* lookup keys: raw byte strings
Keys == {<<b>> : b \in 0..MaxKeyByte}

\* a BuildHasher: any deterministic function from byte strings to the hash
\* space; the family is the multiplicative rolling hashes (seed, mult)
Hashers == [seed : 0..MaxSeed, mult : 1..MaxMult]

Threads == 1..MaxThreads

\* the inputs of the threads of ConcSpec
ConcNodeIds == {<<96 + i>> : i \in 1..MaxConcNodes}

ConcKeys == {<<b>> : b \in 0..MaxConcKeyByte}

ConcHashers == {h \in Hashers : h.mult <= MaxConcMult}

\* a Config holds two usize fields, zero included
Configs == [replication_factor : 0..MaxRF, partition_count : 0..MaxPC]

HashSpace == 0..(HashModulus - 1)

\* ----------------------------------------------------------------- hashing
RECURSIVE ToDecimal(_)
\* decimal digits of n as ASCII bytes (Display for usize)
ToDecimal(n) ==
    IF n < 10 THEN <<48 + n>>
    ELSE ToDecimal(n \div 10) \o <<48 + (n % 10)>>

\* format!("{}:{}", name, replica)
format_replica(name, replica) == name \o <<58>> \o ToDecimal(replica)

RECURSIVE le_bytes(_, _)
\* the n low-order bytes of p, least significant first
le_bytes(p, n) ==
    IF n = 0 THEN <<>> ELSE <<p % 256>> \o le_bytes(p \div 256, n - 1)

\* part_id.to_ne_bytes() on a little-endian 64-bit target
to_ne_bytes(p) == le_bytes(p, USIZE_BYTES)

RECURSIVE hasher_write(_, _)
\* Hasher::write folded over the bytes, starting from the hasher state h
hasher_write(h, data) ==
    IF data = <<>> THEN h
    ELSE hasher_write(((h + Head(data)) * hasher.mult) % HashModulus, Tail(data))

\* build_hasher(); write(data); finish()
hash_bytes(data) == hasher_write(hasher.seed % HashModulus, data)

hash_with_replica_idx(name, replica) == hash_bytes(format_replica(name, replica))

hash_partition_id(part_id) == hash_bytes(to_ne_bytes(part_id))

hash_key(key) == hash_bytes(key)

\* ----------------------------------------------------- BTreeMap / HashMap
EmptyMap == [x \in {} |-> 0]

\* map.insert(k, v): an existing entry for k is overwritten
MapInsert(m, k, v) == [x \in DOMAIN m \cup {k} |-> IF x = k THEN v ELSE m[x]]

\* map.remove(&k)
MapRemove(m, k) == [x \in DOMAIN m \ {k} |-> m[x]]

RECURSIVE SortedKeysOf(_)
SortedKeysOf(S) ==
    IF S = {} THEN <<>>
    ELSE LET lo == CHOOSE x \in S : \A y \in S : x <= y
         IN  <<lo>> \o SortedKeysOf(S \ {lo})

\* BTreeMap::iter(): the keys in ascending order
btree_iter(m) == SortedKeysOf(DOMAIN m)

\* BTreeMap::range(h..)
range_from(m, h) == SelectSeq(btree_iter(m), LAMBDA k : k >= h)

\* BTreeMap::range(..h)
range_to(m, h) == SelectSeq(btree_iter(m), LAMBDA k : k < h)

\* closest_entry wrapping around to the largest key (iter().next_back())
closest_entry_wrap_last(m, h) ==
    IF range_from(m, h) # <<>> THEN Some(Head(range_from(m, h)))
    ELSE IF btree_iter(m) # <<>> THEN Some(btree_iter(m)[Len(btree_iter(m))])
    ELSE None

\* closest_entry without the wraparound (the or_else is missing)
closest_entry_no_wrap(m, h) ==
    IF range_from(m, h) # <<>> THEN Some(Head(range_from(m, h)))
    ELSE None

\* range(h..).next().or_else(|| iter().next()): Some(key found), or None
closest_entry(m, h) ==
    IF range_from(m, h) # <<>> THEN Some(Head(range_from(m, h)))
    ELSE IF btree_iter(m) # <<>> THEN Some(Head(btree_iter(m)))
    ELSE None

\* ------------------------------------------------------------- operations
\* Config::validate
\* validate without the replication_factor test
validate_partition_only(c) == c.partition_count # 0

validate(c) == c.partition_count # 0 /\ c.replication_factor # 0

RECURSIVE insert_replicas_evict(_, _, _)
\* insert_replicas that removes the entry found at an occupied hash
insert_replicas_evict(m, id, i) ==
    IF i >= config.replication_factor THEN m
    ELSE LET h == hash_with_replica_idx(id, i)
         IN  insert_replicas_evict(
                 IF h \in DOMAIN m THEN MapRemove(m, h) ELSE MapInsert(m, h, id),
                 id, i + 1)

RECURSIVE insert_replicas_skip_first(_, _, _)
\* insert_replicas with the loop running over 1..replication_factor
insert_replicas_skip_first(m, id, i) ==
    IF i + 1 >= config.replication_factor THEN m
    ELSE insert_replicas_skip_first(
             MapInsert(m, hash_with_replica_idx(id, i + 1), id), id, i + 1)

RECURSIVE insert_replicas(_, _, _)
\* for i in 0..replication_factor { sorted_set.insert(hash(id, i), node) }
insert_replicas(m, id, i) ==
    IF i >= config.replication_factor THEN m
    ELSE insert_replicas(MapInsert(m, hash_with_replica_idx(id, i), id), id, i + 1)

RECURSIVE remove_replicas_skip_first(_, _, _)
\* remove_replicas with the loop running over 1..replication_factor
remove_replicas_skip_first(m, id, i) ==
    IF i + 1 >= config.replication_factor THEN m
    ELSE remove_replicas_skip_first(
             MapRemove(m, hash_with_replica_idx(id, i + 1)), id, i + 1)

RECURSIVE remove_replicas_shifted(_, _, _)
\* remove_replicas hashing replica i as replica i + 1
remove_replicas_shifted(m, id, i) ==
    IF i >= config.replication_factor THEN m
    ELSE remove_replicas_shifted(
             MapRemove(m, hash_with_replica_idx(id, i + 1)), id, i + 1)

RECURSIVE remove_replicas_inclusive(_, _, _)
\* remove_replicas with the loop running over 0..=replication_factor
remove_replicas_inclusive(m, id, i) ==
    IF i > config.replication_factor THEN m
    ELSE remove_replicas_inclusive(
             MapRemove(m, hash_with_replica_idx(id, i)), id, i + 1)

RECURSIVE remove_replicas(_, _, _)
\* for i in 0..replication_factor { sorted_set.remove(&hash(id, i)) }
remove_replicas(m, id, i) ==
    IF i >= config.replication_factor THEN m
    ELSE remove_replicas(MapRemove(m, hash_with_replica_idx(id, i)), id, i + 1)

\* find_closest_idx: the key of the closest-clockwise entry, 0 on an empty map
find_closest_idx(m, hashed_part_id) ==
    IF closest_entry(m, hashed_part_id) = None THEN 0
    ELSE closest_entry(m, hashed_part_id)[1]

\* distribute_step that assigns only partitions whose hash is itself an index key
distribute_step_exact(m, parts, part_id) ==
    LET idx == hash_partition_id(part_id)
    IN  IF idx \in DOMAIN m THEN MapInsert(parts, part_id, m[idx]) ELSE parts

\* one iteration of the loop of distribute_partitions
distribute_step(m, parts, part_id) ==
    LET idx == find_closest_idx(m, hash_partition_id(part_id))
    IN  IF idx \in DOMAIN m THEN MapInsert(parts, part_id, m[idx]) ELSE parts

RECURSIVE distribute_loop(_, _, _)
distribute_loop(m, parts, part_id) ==
    IF part_id >= config.partition_count THEN parts
    ELSE distribute_loop(m, distribute_step(m, parts, part_id), part_id + 1)

\* distribute_partitions without the partitions.clear()
distribute_partitions_no_clear(m) == distribute_loop(m, partitions, 0)

\* distribute_partitions: clear the table, then assign every partition
distribute_partitions(m) == distribute_loop(m, EmptyMap, 0)

\* get_key: the node of the closest-clockwise entry, None on an empty index
get_key(key) ==
    LET k == closest_entry(sorted_nodes_hash_set, hash_key(key))
    IN  IF k = None THEN None ELSE Some(sorted_nodes_hash_set[k[1]])

RECURSIVE preference_loop_no_dedup(_, _, _, _)
\* preference_loop that pushes every entry walked, seen before or not
preference_loop_no_dedup(m, entries, unique_nodes, preference_list) ==
    IF entries = <<>> THEN preference_list
    ELSE IF Len(preference_list) + 1 >= config.replication_factor
         THEN Append(preference_list, m[Head(entries)])
         ELSE preference_loop_no_dedup(m, Tail(entries), unique_nodes,
                                       Append(preference_list, m[Head(entries)]))

RECURSIVE preference_loop(_, _, _, _)
\* the for loop of get_preference_list over the chained ranges
preference_loop(m, entries, unique_nodes, preference_list) ==
    IF entries = <<>> THEN preference_list
    ELSE LET node == m[Head(entries)]
         IN  IF node \notin unique_nodes
             THEN IF Len(preference_list) + 1 >= config.replication_factor
                  THEN Append(preference_list, node)
                  ELSE preference_loop(m, Tail(entries), unique_nodes \cup {node},
                                       Append(preference_list, node))
             ELSE preference_loop(m, Tail(entries), unique_nodes, preference_list)

\* get_preference_list walking the index from its smallest hash
get_preference_list_no_rotation(key) ==
    LET m == sorted_nodes_hash_set
    IN  preference_loop(m, btree_iter(m), {}, <<>>)

get_preference_list(key) ==
    LET h == hash_key(key)
        m == sorted_nodes_hash_set
    IN  preference_loop(m, range_from(m, h) \o range_to(m, h), {}, <<>>)

RECURSIVE count_loop(_, _, _)
\* for node in sorted_set.values() { *entry(id).or_insert(0) += 1 }
count_loop(m, entries, virtual_nodes) ==
    IF entries = <<>> THEN virtual_nodes
    ELSE LET id == m[Head(entries)]
             old == IF id \in DOMAIN virtual_nodes THEN virtual_nodes[id] ELSE 0
         IN  count_loop(m, Tail(entries), MapInsert(virtual_nodes, id, old + 1))

virtual_nodes_per_node ==
    count_loop(sorted_nodes_hash_set, btree_iter(sorted_nodes_hash_set), EmptyMap)

\* ------------------------------------------------- one caller, atomic calls
InitThreads ==
    /\ pc = [t \in Threads |-> "idle"]
    /\ call = [t \in Threads |-> [op |-> "none", arg |-> None]]
    /\ loop_i = [t \in Threads |-> 0]
    /\ ret = [t \in Threads |-> None]
    /\ nodes_lock = 0
    /\ index_lock = [writer |-> 0, readers |-> {}]
    /\ partitions_lock = 0
    /\ add_stage = [id \in NodeIds |-> "none"]
    /\ invocations = 0

\* the constructor: Err(InvalidConfig) when validate fails, otherwise a ring
\* that holds the config and the hasher and three empty maps
with_hasher(c, h) ==
    /\ config = c
    /\ hasher = h
    /\ nodes = {}
    /\ sorted_nodes_hash_set = EmptyMap
    /\ partitions = EmptyMap
    /\ last = [op |-> "new", arg |-> None,
               ret |-> IF validate(c) THEN "Ok" ELSE "InvalidConfig"]

\* a caller holds a ring only when the constructor returned Ok
Constructed == ~(last.op = "new" /\ last.ret = "InvalidConfig")

Init ==
    /\ \E c \in Configs, h \in Hashers : with_hasher(c, h)
    /\ InitThreads
    /\ writer_priority = FALSE

\* add_node with the duplicate check made after the insert loop
add_node_check_late(id) ==
    IF id \in nodes
    THEN /\ sorted_nodes_hash_set' = insert_replicas(sorted_nodes_hash_set, id, 0)
         /\ last' = [op |-> "add_node", arg |-> id, ret |-> "DuplicateNode"]
         /\ UNCHANGED <<config, hasher, nodes, partitions, threads>>
    ELSE /\ sorted_nodes_hash_set' = insert_replicas(sorted_nodes_hash_set, id, 0)
         /\ nodes' = nodes \cup {id}
         /\ partitions' = distribute_partitions(sorted_nodes_hash_set')
         /\ last' = [op |-> "add_node", arg |-> id, ret |-> "Ok", before |-> ring]
         /\ UNCHANGED <<config, hasher, threads>>

\* a successful call records in last the ring it started from
add_node(id) ==
    IF id \in nodes
    THEN /\ last' = [op |-> "add_node", arg |-> id, ret |-> "DuplicateNode"]
         /\ UNCHANGED <<config, hasher, ring, threads>>
    ELSE /\ sorted_nodes_hash_set' = insert_replicas(sorted_nodes_hash_set, id, 0)
         /\ nodes' = nodes \cup {id}
         /\ partitions' = distribute_partitions(sorted_nodes_hash_set')
         /\ last' = [op |-> "add_node", arg |-> id, ret |-> "Ok", before |-> ring]
         /\ UNCHANGED <<config, hasher, threads>>

\* remove_node with the presence check made after the remove loop
remove_node_check_late(id) ==
    IF id \notin nodes
    THEN /\ sorted_nodes_hash_set' = remove_replicas(sorted_nodes_hash_set, id, 0)
         /\ last' = [op |-> "remove_node", arg |-> id, ret |-> "NodeNotFound"]
         /\ UNCHANGED <<config, hasher, nodes, partitions, threads>>
    ELSE /\ sorted_nodes_hash_set' = remove_replicas(sorted_nodes_hash_set, id, 0)
         /\ nodes' = nodes \ {id}
         /\ partitions' = distribute_partitions(sorted_nodes_hash_set')
         /\ last' = [op |-> "remove_node", arg |-> id, ret |-> "Ok",
                     undoes |-> IF /\ last.op = "add_node"
                                   /\ last.ret = "Ok"
                                   /\ last.arg = id
                                THEN Some(last.before) ELSE None]
         /\ UNCHANGED <<config, hasher, threads>>

\* remove_node without the closing distribute_partitions
remove_node_no_distribute(id) ==
    IF id \notin nodes
    THEN /\ last' = [op |-> "remove_node", arg |-> id, ret |-> "NodeNotFound"]
         /\ UNCHANGED <<config, hasher, ring, threads>>
    ELSE /\ sorted_nodes_hash_set' = remove_replicas(sorted_nodes_hash_set, id, 0)
         /\ nodes' = nodes \ {id}
         /\ last' = [op |-> "remove_node", arg |-> id, ret |-> "Ok",
                     undoes |-> IF /\ last.op = "add_node"
                                   /\ last.ret = "Ok"
                                   /\ last.arg = id
                                THEN Some(last.before) ELSE None]
         /\ UNCHANGED <<config, hasher, partitions, threads>>

\* a successful call that directly follows the successful add_node of the
\* same id records in last the ring that add_node started from
remove_node(id) ==
    IF id \notin nodes
    THEN /\ last' = [op |-> "remove_node", arg |-> id, ret |-> "NodeNotFound"]
         /\ UNCHANGED <<config, hasher, ring, threads>>
    ELSE /\ sorted_nodes_hash_set' = remove_replicas(sorted_nodes_hash_set, id, 0)
         /\ nodes' = nodes \ {id}
         /\ partitions' = distribute_partitions(sorted_nodes_hash_set')
         /\ last' = [op |-> "remove_node", arg |-> id, ret |-> "Ok",
                     undoes |-> IF /\ last.op = "add_node"
                                   /\ last.ret = "Ok"
                                   /\ last.arg = id
                                THEN Some(last.before) ELSE None]
         /\ UNCHANGED <<config, hasher, threads>>

AddNode == Constructed /\ \E id \in NodeIds : add_node(id)

RemoveNode == Constructed /\ \E id \in NodeIds : remove_node(id)

\* get_key building a fresh hasher state for later calls
GetKey_reseed ==
    /\ Constructed
    /\ \E key \in Keys :
        /\ hasher' = [hasher EXCEPT !.seed = (@ + 1) % (MaxSeed + 1)]
        /\ last' = [op |-> "get_key", arg |-> key, ret |-> get_key(key)]
        /\ UNCHANGED <<config, ring, threads>>

GetKey ==
    /\ Constructed
    /\ \E key \in Keys :
        /\ last' = [op |-> "get_key", arg |-> key, ret |-> get_key(key)]
        /\ UNCHANGED <<config, hasher, ring, threads>>

GetPreferenceList ==
    /\ Constructed
    /\ \E key \in Keys :
        /\ last' = [op |-> "get_preference_list", arg |-> key,
                    ret |-> get_preference_list(key)]
        /\ UNCHANGED <<config, hasher, ring, threads>>

VirtualNodesPerNode ==
    /\ Constructed
    /\ last' = [op |-> "virtual_nodes_per_node", arg |-> None,
                ret |-> virtual_nodes_per_node]
    /\ UNCHANGED <<config, hasher, ring, threads>>

Next ==
    \/ AddNode
    \/ RemoveNode
    \/ GetKey
    \/ GetPreferenceList
    \/ VirtualNodesPerNode

Spec == Init /\ [][Next]_vars

\* ------------------------------------------ several threads, shared state
ConcInit ==
    /\ config \in Configs
    /\ validate(config)
    /\ hasher \in ConcHashers
    /\ nodes = {}
    /\ sorted_nodes_hash_set = EmptyMap
    /\ partitions = EmptyMap
    /\ last = [op |-> "new", arg |-> None, ret |-> "Ok"]
    /\ InitThreads
    /\ writer_priority \in BOOLEAN

Lookups == {"get_key", "get_preference_list", "virtual_nodes_per_node"}

Calls ==
    [op : {"add_node", "remove_node"}, arg : ConcNodeIds]
        \cup [op : {"get_key", "get_preference_list"}, arg : ConcKeys]
        \cup [op : {"virtual_nodes_per_node"}, arg : {None}]

\* the first program point of a call
Entry(c) ==
    CASE c.op = "add_node" -> "add_lock_nodes"
      [] c.op = "remove_node" -> "remove_lock_index"
      [] OTHER -> "lookup_lock_index"

\* a thread has called write() on the index lock and has not got it yet
WriterWaiting ==
    \E u \in Threads : pc[u] \in {"add_lock_index", "remove_lock_index"}

\* RwLock::write on the index: no writer and no reader holds it
CanWriteIndex == index_lock.writer = 0 /\ index_lock.readers = {}

\* RwLock::read on the index: no writer holds it; whether a waiting writer
\* blocks a new reader (also one that already holds a read guard) is left to
\* the platform's lock
CanReadIndex == index_lock.writer = 0 /\ (writer_priority => ~WriterWaiting)

\* a thread calls a method on its handle
Invoke(t) ==
    /\ pc[t] \in {"idle", "returned"}
    /\ invocations < MaxCalls
    /\ invocations' = invocations + 1
    /\ \E c \in Calls :
           /\ call' = [call EXCEPT ![t] = c]
           /\ pc' = [pc EXCEPT ![t] = Entry(c)]
    /\ ret' = [ret EXCEPT ![t] = None]
    /\ UNCHANGED <<config, hasher, ring, last, loop_i, nodes_lock, index_lock,
                   partitions_lock, writer_priority, add_stage>>

\* add_node: self.nodes.write(), then the duplicate check
add_node_lock_nodes(t) ==
    /\ pc[t] = "add_lock_nodes"
    /\ nodes_lock = 0
    /\ IF call[t].arg \in nodes
       THEN /\ pc' = [pc EXCEPT ![t] = "returned"]
            /\ ret' = [ret EXCEPT ![t] = "DuplicateNode"]
            /\ UNCHANGED nodes_lock
       ELSE /\ pc' = [pc EXCEPT ![t] = "add_lock_index"]
            /\ nodes_lock' = t
            /\ UNCHANGED ret
    /\ UNCHANGED <<config, hasher, ring, last, call, loop_i, index_lock,
                   partitions_lock, writer_priority, add_stage, invocations>>

\* add_node: self.sorted_nodes_hash_set.write()
add_node_lock_index(t) ==
    /\ pc[t] = "add_lock_index"
    /\ CanWriteIndex
    /\ index_lock' = [index_lock EXCEPT !.writer = t]
    /\ pc' = [pc EXCEPT ![t] = "add_insert"]
    /\ loop_i' = [loop_i EXCEPT ![t] = 0]
    /\ UNCHANGED <<config, hasher, ring, last, call, ret, nodes_lock,
                   partitions_lock, writer_priority, add_stage, invocations>>

\* add_node_insert taking the write guard anew in every iteration, so that
\* the index lock is free between two inserts
add_node_insert_lock_per_entry(t) ==
    /\ pc[t] = "add_insert"
    /\ loop_i[t] < config.replication_factor
    /\ sorted_nodes_hash_set' =
           MapInsert(sorted_nodes_hash_set,
                     hash_with_replica_idx(call[t].arg, loop_i[t]), call[t].arg)
    /\ loop_i' = [loop_i EXCEPT ![t] = loop_i[t] + 1]
    /\ index_lock' = [index_lock EXCEPT !.writer = 0]
    /\ UNCHANGED <<config, hasher, nodes, partitions, last, pc, call, ret,
                   nodes_lock, partitions_lock, writer_priority,
                   add_stage, invocations>>

\* add_node: one iteration of the insert loop
add_node_insert(t) ==
    /\ pc[t] = "add_insert"
    /\ loop_i[t] < config.replication_factor
    /\ sorted_nodes_hash_set' =
           MapInsert(sorted_nodes_hash_set,
                     hash_with_replica_idx(call[t].arg, loop_i[t]), call[t].arg)
    /\ loop_i' = [loop_i EXCEPT ![t] = loop_i[t] + 1]
    /\ UNCHANGED <<config, hasher, nodes, partitions, last, pc, call, ret,
                   nodes_lock, index_lock, partitions_lock, writer_priority,
                   add_stage, invocations>>

\* add_node: nodes.insert(id, node); drop(nodes)
add_node_register(t) ==
    /\ pc[t] = "add_insert"
    /\ loop_i[t] >= config.replication_factor
    /\ nodes' = nodes \cup {call[t].arg}
    /\ nodes_lock' = 0
    /\ pc' = [pc EXCEPT ![t] = "add_drop_index"]
    /\ loop_i' = [loop_i EXCEPT ![t] = 0]
    /\ UNCHANGED <<config, hasher, sorted_nodes_hash_set, partitions, last,
                   call, ret, index_lock, partitions_lock, writer_priority,
                   add_stage, invocations>>

\* add_node: drop(sorted_set); the call goes on with distribute_partitions
add_node_drop_index(t) ==
    /\ pc[t] = "add_drop_index"
    /\ index_lock' = [index_lock EXCEPT !.writer = 0]
    /\ pc' = [pc EXCEPT ![t] = "distribute_lock_index"]
    /\ add_stage' = [add_stage EXCEPT ![call[t].arg] =
                         IF @ = "returned" THEN @ ELSE "inserted"]
    /\ UNCHANGED <<config, hasher, ring, last, call, loop_i, ret, nodes_lock,
                   partitions_lock, writer_priority, invocations>>

\* remove_node: self.sorted_nodes_hash_set.write()
remove_node_lock_index(t) ==
    /\ pc[t] = "remove_lock_index"
    /\ CanWriteIndex
    /\ index_lock' = [index_lock EXCEPT !.writer = t]
    /\ pc' = [pc EXCEPT ![t] = "remove_lock_nodes"]
    /\ UNCHANGED <<config, hasher, ring, last, call, loop_i, ret, nodes_lock,
                   partitions_lock, writer_priority, add_stage, invocations>>

\* remove_node: self.nodes.write(), then the presence check
remove_node_lock_nodes(t) ==
    /\ pc[t] = "remove_lock_nodes"
    /\ nodes_lock = 0
    /\ IF call[t].arg \notin nodes
       THEN /\ pc' = [pc EXCEPT ![t] = "returned"]
            /\ ret' = [ret EXCEPT ![t] = "NodeNotFound"]
            /\ index_lock' = [index_lock EXCEPT !.writer = 0]
            /\ UNCHANGED nodes_lock
       ELSE /\ pc' = [pc EXCEPT ![t] = "remove_entries"]
            /\ nodes_lock' = t
            /\ UNCHANGED <<ret, index_lock>>
    /\ loop_i' = [loop_i EXCEPT ![t] = 0]
    /\ UNCHANGED <<config, hasher, ring, last, call, partitions_lock,
                   writer_priority, add_stage, invocations>>

\* remove_node_remove taking and dropping the write guard in each iteration
remove_node_remove_lock_per_entry(t) ==
    /\ pc[t] = "remove_entries"
    /\ loop_i[t] < config.replication_factor
    /\ sorted_nodes_hash_set' =
           MapRemove(sorted_nodes_hash_set,
                     hash_with_replica_idx(call[t].arg, loop_i[t]))
    /\ loop_i' = [loop_i EXCEPT ![t] = loop_i[t] + 1]
    /\ index_lock' = [index_lock EXCEPT !.writer = 0]
    /\ UNCHANGED <<config, hasher, nodes, partitions, last, pc, call, ret,
                   nodes_lock, partitions_lock, writer_priority,
                   add_stage, invocations>>

\* remove_node: one iteration of the remove loop
remove_node_remove(t) ==
    /\ pc[t] = "remove_entries"
    /\ loop_i[t] < config.replication_factor
    /\ sorted_nodes_hash_set' =
           MapRemove(sorted_nodes_hash_set,
                     hash_with_replica_idx(call[t].arg, loop_i[t]))
    /\ loop_i' = [loop_i EXCEPT ![t] = loop_i[t] + 1]
    /\ UNCHANGED <<config, hasher, nodes, partitions, last, pc, call, ret,
                   nodes_lock, index_lock, partitions_lock, writer_priority,
                   add_stage, invocations>>

\* remove_node_unregister without the nodes.remove(id)
remove_node_unregister_keep(t) ==
    /\ pc[t] = "remove_entries"
    /\ loop_i[t] >= config.replication_factor
    /\ nodes_lock' = 0
    /\ pc' = [pc EXCEPT ![t] = "remove_drop_index"]
    /\ loop_i' = [loop_i EXCEPT ![t] = 0]
    /\ UNCHANGED <<config, hasher, ring, last, call, ret, index_lock,
                   partitions_lock, writer_priority, add_stage, invocations>>

\* remove_node: nodes.remove(id); drop(nodes)
remove_node_unregister(t) ==
    /\ pc[t] = "remove_entries"
    /\ loop_i[t] >= config.replication_factor
    /\ nodes' = nodes \ {call[t].arg}
    /\ nodes_lock' = 0
    /\ pc' = [pc EXCEPT ![t] = "remove_drop_index"]
    /\ loop_i' = [loop_i EXCEPT ![t] = 0]
    /\ UNCHANGED <<config, hasher, sorted_nodes_hash_set, partitions, last,
                   call, ret, index_lock, partitions_lock, writer_priority,
                   add_stage, invocations>>

\* remove_node: drop(sorted_set); the call goes on with distribute_partitions
remove_node_drop_index(t) ==
    /\ pc[t] = "remove_drop_index"
    /\ index_lock' = [index_lock EXCEPT !.writer = 0]
    /\ pc' = [pc EXCEPT ![t] = "distribute_lock_index"]
    /\ UNCHANGED <<config, hasher, ring, last, call, loop_i, ret, nodes_lock,
                   partitions_lock, writer_priority, add_stage, invocations>>

\* distribute_partitions: self.sorted_nodes_hash_set.read()
distribute_lock_index(t) ==
    /\ pc[t] = "distribute_lock_index"
    /\ CanReadIndex
    /\ index_lock' = [index_lock EXCEPT !.readers = @ \cup {t}]
    /\ pc' = [pc EXCEPT ![t] = "distribute_lock_partitions"]
    /\ UNCHANGED <<config, hasher, ring, last, call, loop_i, ret, nodes_lock,
                   partitions_lock, writer_priority, add_stage, invocations>>

\* distribute_lock_partitions without the partitions.clear()
distribute_lock_partitions_no_clear(t) ==
    /\ pc[t] = "distribute_lock_partitions"
    /\ partitions_lock = 0
    /\ partitions_lock' = t
    /\ loop_i' = [loop_i EXCEPT ![t] = 0]
    /\ pc' = [pc EXCEPT ![t] = "distribute_assign"]
    /\ UNCHANGED <<config, hasher, ring, last, call, ret, nodes_lock,
                   index_lock, writer_priority, add_stage, invocations>>

\* distribute_partitions: self.partitions.write(); partitions.clear()
distribute_lock_partitions(t) ==
    /\ pc[t] = "distribute_lock_partitions"
    /\ partitions_lock = 0
    /\ partitions_lock' = t
    /\ partitions' = EmptyMap
    /\ loop_i' = [loop_i EXCEPT ![t] = 0]
    /\ pc' = [pc EXCEPT ![t] = "distribute_assign"]
    /\ UNCHANGED <<config, hasher, nodes, sorted_nodes_hash_set, last, call,
                   ret, nodes_lock, index_lock, writer_priority, add_stage, invocations>>

\* distribute_partitions: one iteration; find_closest_idx takes and drops a
\* second read guard on the index while the first is still held
distribute_assign(t) ==
    /\ pc[t] = "distribute_assign"
    /\ loop_i[t] < config.partition_count
    /\ CanReadIndex
    /\ partitions' = distribute_step(sorted_nodes_hash_set, partitions, loop_i[t])
    /\ loop_i' = [loop_i EXCEPT ![t] = loop_i[t] + 1]
    /\ UNCHANGED <<config, hasher, nodes, sorted_nodes_hash_set, last, pc,
                   call, ret, nodes_lock, index_lock, partitions_lock,
                   writer_priority, add_stage, invocations>>

\* distribute_partitions returns: both guards are dropped, and add_node or
\* remove_node returns Ok
distribute_return(t) ==
    /\ pc[t] = "distribute_assign"
    /\ loop_i[t] >= config.partition_count
    /\ partitions_lock' = 0
    /\ index_lock' = [index_lock EXCEPT !.readers = @ \ {t}]
    /\ loop_i' = [loop_i EXCEPT ![t] = 0]
    /\ pc' = [pc EXCEPT ![t] = "returned"]
    /\ ret' = [ret EXCEPT ![t] = "Ok"]
    /\ add_stage' = IF call[t].op = "add_node"
                    THEN [add_stage EXCEPT ![call[t].arg] = "returned"]
                    ELSE add_stage
    /\ UNCHANGED <<config, hasher, ring, last, call, nodes_lock,
                   writer_priority, invocations>>

\* get_key, get_preference_list, virtual_nodes_per_node:
\* self.sorted_nodes_hash_set.read()
lookup_lock_index(t) ==
    /\ pc[t] = "lookup_lock_index"
    /\ CanReadIndex
    /\ index_lock' = [index_lock EXCEPT !.readers = @ \cup {t}]
    /\ pc' = [pc EXCEPT ![t] = "lookup_read"]
    /\ UNCHANGED <<config, hasher, ring, last, call, loop_i, ret, nodes_lock,
                   partitions_lock, writer_priority, add_stage, invocations>>

\* the lookup computes its result under the read guard and returns
lookup_return(t) ==
    /\ pc[t] = "lookup_read"
    /\ ret' = [ret EXCEPT ![t] =
                   CASE call[t].op = "get_key" -> get_key(call[t].arg)
                     [] call[t].op = "get_preference_list" ->
                            get_preference_list(call[t].arg)
                     [] OTHER -> virtual_nodes_per_node]
    /\ index_lock' = [index_lock EXCEPT !.readers = @ \ {t}]
    /\ pc' = [pc EXCEPT ![t] = "returned"]
    /\ UNCHANGED <<config, hasher, ring, last, call, loop_i, nodes_lock,
                   partitions_lock, writer_priority, add_stage, invocations>>

ConcNext ==
    \E t \in Threads :
        \/ Invoke(t)
        \/ add_node_lock_nodes(t)
        \/ add_node_lock_index(t)
        \/ add_node_insert(t)
        \/ add_node_register(t)
        \/ add_node_drop_index(t)
        \/ remove_node_lock_index(t)
        \/ remove_node_lock_nodes(t)
        \/ remove_node_remove(t)
        \/ remove_node_unregister(t)
        \/ remove_node_drop_index(t)
        \/ distribute_lock_index(t)
        \/ distribute_lock_partitions(t)
        \/ distribute_assign(t)
        \/ distribute_return(t)
        \/ lookup_lock_index(t)
        \/ lookup_return(t)

ConcSpec == ConcInit /\ [][ConcNext]_vars

\* ------------------------------------------------------------ properties
IndexHashes == DOMAIN sorted_nodes_hash_set

\* the distinct nodes that own at least one point of the ring
IndexNodes == {sorted_nodes_hash_set[x] : x \in IndexHashes}

EntriesOf(id) == {x \in IndexHashes : sorted_nodes_hash_set[x] = id}

\* the owner of the smallest index hash >= h, else of the smallest index hash
ClockwiseOwner(m, h) ==
    IF \E x \in DOMAIN m : x >= h
    THEN m[CHOOSE x \in DOMAIN m : x >= h /\ \A y \in DOMAIN m : y >= h => x <= y]
    ELSE m[CHOOSE x \in DOMAIN m : \A y \in DOMAIN m : x <= y]

ReplicaPairs == NodeIds \X (0..(config.replication_factor - 1))

\* no two (node id, replica index) pairs hash to the same value
NoCollisions ==
    \A p, q \in ReplicaPairs :
        p # q => hash_with_replica_idx(p[1], p[2]) # hash_with_replica_idx(q[1], q[2])

IsSet(seq) == \A i, j \in 1..Len(seq) : i # j => seq[i] # seq[j]

Range(seq) == {seq[i] : i \in 1..Len(seq)}

\* C1: on a non-empty index get_key(key) returns the node stored at the
\* smallest index hash >= hash(key), and the node stored at the smallest
\* index hash when no index hash is >= hash(key); the partition table is
\* not consulted.
C1_ClosestClockwise ==
    (last.op = "get_key" /\ IndexHashes # {}) =>
        last.ret = Some(ClockwiseOwner(sorted_nodes_hash_set, hash_key(last.arg)))

\* a lookup that wrapped around on an index holding two nodes
C1_Witness ==
    /\ last.op = "get_key"
    /\ Cardinality(IndexNodes) >= 2
    /\ \A x \in IndexHashes : x < hash_key(last.arg)
    /\ last.ret # None

\* C2 (as stated): get_key returns Some whenever a node is registered and
\* None when no node is registered.
C2_SomeIffRegistered ==
    last.op = "get_key" => (last.ret # None <=> nodes # {})

\* C2 (amended): provided no two (node id, replica index) pairs hash to the
\* same value, get_key returns Some whenever a node is registered and None
\* when no node is registered.
C2_SomeIffRegisteredNoCollisions ==
    last.op = "get_key" => ((last.ret # None <=> nodes # {}) \/ ~NoCollisions)

\* a lookup past the largest index hash of a collision-free ring
C2_Witness ==
    /\ NoCollisions
    /\ last.op = "get_key"
    /\ nodes # {}
    /\ \A x \in IndexHashes : x < hash_key(last.arg)
    /\ last.ret # None

C4_ReplicaCount ==
    \/ /\ \A id \in nodes : Cardinality(EntriesOf(id)) = config.replication_factor
       /\ DOMAIN virtual_nodes_per_node = nodes
       /\ \A id \in nodes : virtual_nodes_per_node[id] = config.replication_factor
    \/ ~NoCollisions

\* right after a successful add_node next to an earlier node, no collisions
C4_Witness ==
    /\ NoCollisions
    /\ config.replication_factor = 2
    /\ last.op = "add_node"
    /\ last.ret = "Ok"
    /\ Cardinality(nodes) >= 2
    /\ virtual_nodes_per_node[last.arg] = 2

PartitionIds == 0..(config.partition_count - 1)

\* C5 (as stated): the partition table has the keys 0..partition_count-1 when
\* a node is registered and is empty when none is, and every node in it is
\* registered.
C5_PartitionTableSize ==
    /\ nodes # {} => DOMAIN partitions = PartitionIds
    /\ nodes = {} => DOMAIN partitions = {}
    /\ \A p \in DOMAIN partitions : partitions[p] \in nodes

\* C5 (amended): provided no two (node id, replica index) pairs hash to the
\* same value, the partition table has the keys 0..partition_count-1 when a
\* node is registered and is empty when none is; in every case every node in
\* it is registered.
C5_PartitionTableSizeNoCollisions ==
    /\ \/ /\ nodes # {} => DOMAIN partitions = PartitionIds
          /\ nodes = {} => DOMAIN partitions = {}
       \/ ~NoCollisions
    /\ \A p \in DOMAIN partitions : partitions[p] \in nodes

\* a full table after a successful removal that left a node, no collisions
C5_Witness ==
    /\ NoCollisions
    /\ config.partition_count = 2
    /\ last.op = "remove_node"
    /\ last.ret = "Ok"
    /\ nodes # {}
    /\ DOMAIN partitions = PartitionIds

\* the step is a successful remove_node (of the node last'.arg)
RemovedOk ==
    /\ last'.op = "remove_node"
    /\ last'.ret = "Ok"

\* the result of get_key for a key that hashes to h, on the index m
OwnerIn(m, h) ==
    LET k == closest_entry(m, h)
    IN  IF k = None THEN None ELSE Some(m[k[1]])

\* keys and partitions owned by a node other than n keep their owner
OthersKeepOwner(n) ==
    /\ \A k \in Keys :
           (get_key(k) # None /\ get_key(k) # Some(n)) =>
               OwnerIn(sorted_nodes_hash_set', hash_key(k)) = get_key(k)
    /\ \A p \in DOMAIN partitions :
           partitions[p] # n =>
               (p \in DOMAIN partitions' /\ partitions'[p] = partitions[p])

\* C8 (as stated): a successful remove_node(n) leaves the owner of every key
\* and of every partition that was owned by a node other than n.
C8_MinimalDisruption ==
    [][RemovedOk => OthersKeepOwner(last'.arg)]_vars

\* C8 (amended): provided no two (node id, replica index) pairs hash to the
\* same value, a successful remove_node(n) leaves the owner of every key and
\* of every partition that was owned by a node other than n.
C8_MinimalDisruptionNoCollisions ==
    [][RemovedOk => (OthersKeepOwner(last'.arg) \/ ~NoCollisions)]_vars

\* a successful removal from a collision-free ring that leaves two nodes
C8_Witness ==
    /\ NoCollisions
    /\ last.op = "remove_node"
    /\ last.ret = "Ok"
    /\ Cardinality(IndexNodes) >= 2
    /\ last.arg \notin nodes

InProgress(t) == pc[t] \notin {"idle", "returned"}

Mutations == {"add_node", "remove_node"}

\* no add_node / remove_node call is in progress
Quiescent == \A t \in Threads : call[t].op \in Mutations => ~InProgress(t)

\* C6 (as stated): whenever no add_node/remove_node is in progress, the ids
\* in the registry are exactly the ids referenced by the index entries.
C6_RegistryIndexAgree == Quiescent => nodes = IndexNodes

\* C6 (amended): provided no two (node id, replica index) pairs hash to the
\* same value, whenever no add_node/remove_node is in progress the ids in the
\* registry are exactly the ids referenced by the index entries.
C6_RegistryIndexAgreeNoCollisions ==
    Quiescent => (nodes = IndexNodes \/ ~NoCollisions)

\* one node left after an add_node and a remove_node of different threads
\* returned, no collisions
C6_Witness ==
    /\ NoCollisions
    /\ Quiescent
    /\ Cardinality(nodes) = 1
    /\ \E t, u \in Threads :
           /\ t # u
           /\ pc[t] = "returned" /\ call[t].op = "add_node" /\ ret[t] = "Ok"
           /\ pc[u] = "returned" /\ call[u].op = "remove_node" /\ ret[u] = "Ok"

\* C7: whenever no add_node/remove_node is in progress, also after
\* concurrent calls have returned, the partition table maps every partition
\* id p in 0..partition_count to the closest-clockwise owner of hash(p) in
\* the current index, and it is empty when the index is empty.
C7_PartitionTableDerived ==
    Quiescent =>
        /\ DOMAIN partitions = IF IndexHashes = {} THEN {} ELSE PartitionIds
        /\ \A p \in DOMAIN partitions :
               partitions[p] =
                   ClockwiseOwner(sorted_nodes_hash_set, hash_partition_id(p))

\* two mutations of different threads have returned Ok, two partitions are
\* assigned, and one of them wrapped around to the smallest index hash
C7_Witness ==
    /\ Quiescent
    /\ config.partition_count = 2
    /\ DOMAIN partitions = PartitionIds
    /\ \E p \in PartitionIds : \A x \in IndexHashes : x < hash_partition_id(p)
    /\ \E t, u \in Threads :
           /\ t # u
           /\ pc[t] = "returned" /\ call[t].op \in Mutations /\ ret[t] = "Ok"
           /\ pc[u] = "returned" /\ call[u].op \in Mutations /\ ret[u] = "Ok"

\* the thread waits for a lock it cannot get in this state
Blocked(t) ==
    \/ pc[t] \in {"add_lock_nodes", "remove_lock_nodes"} /\ nodes_lock # 0
    \/ pc[t] \in {"add_lock_index", "remove_lock_index"} /\ ~CanWriteIndex
    \/ pc[t] \in {"distribute_lock_index", "lookup_lock_index"} /\ ~CanReadIndex
    \/ pc[t] = "distribute_lock_partitions" /\ partitions_lock # 0
    \/ /\ pc[t] = "distribute_assign"
       /\ loop_i[t] < config.partition_count
       /\ ~CanReadIndex

\* C9: no reachable state has calls in progress that all wait for a lock
\* held or requested by another of them (only a call in progress can release
\* or stop requesting a lock, so such calls wait forever).
C9_NoDeadlock ==
    ~ /\ \E t \in Threads : InProgress(t)
      /\ \A t \in Threads : InProgress(t) => Blocked(t)

\* the lookup of thread t returned node n
Observed(t, n) ==
    /\ pc[t] = "returned"
    /\ \/ call[t].op = "get_key" /\ ret[t] = Some(n)
       \/ call[t].op = "get_preference_list" /\ n \in Range(ret[t])

\* C10 (as stated): a get_key or get_preference_list call returns node n only
\* after an add_node(n) call has returned.
C10_VisibleAfterReturn ==
    \A t \in Threads, n \in ConcNodeIds :
        Observed(t, n) => add_stage[n] = "returned"

\* C10 (amended): a get_key or get_preference_list call returns node n only
\* after an add_node(n) call has inserted all replica entries of n and
\* released the write lock of the index; the partition redistribution of
\* that add_node may still be running.
C10_VisibleAfterInsert ==
    \A t \in Threads, n \in ConcNodeIds :
        Observed(t, n) => add_stage[n] \in {"inserted", "returned"}

\* a lookup returned n while the add_node(n) that inserted it is still running
C10_Witness ==
    \E t, u \in Threads, n \in ConcNodeIds :
        /\ Observed(t, n)
        /\ add_stage[n] = "inserted"
        /\ call[u] = [op |-> "add_node", arg |-> n]
        /\ InProgress(u)

\* C11: add_node with an id that is already registered fails with the
\* duplicate-node error and leaves the registry, the index and the partition
\* table as they were.
C11_DuplicateRejected ==
    [][(last'.op = "add_node" /\ last'.arg \in nodes) =>
           (last'.ret = "DuplicateNode" /\ UNCHANGED ring)]_vars

\* a rejected add_node on a ring of two nodes whose replica hashes collide
C11_Witness ==
    /\ last.op = "add_node"
    /\ last.ret = "DuplicateNode"
    /\ Cardinality(nodes) >= 2
    /\ ~NoCollisions

\* C12: remove_node with an id that is not registered fails with the
\* node-not-found error and leaves the registry, the index and the partition
\* table as they were.
C12_UnknownRejected ==
    [][(last'.op = "remove_node" /\ last'.arg \notin nodes) =>
           (last'.ret = "NodeNotFound" /\ UNCHANGED ring)]_vars

\* a rejected remove_node whose id hashes onto an entry of a registered node
C12_Witness ==
    /\ last.op = "remove_node"
    /\ last.ret = "NodeNotFound"
    /\ nodes # {}
    /\ \E i \in 0..(config.replication_factor - 1) :
           hash_with_replica_idx(last.arg, i) \in IndexHashes

\* C13: the constructor fails with the invalid-configuration error exactly
\* when replication_factor or partition_count is zero; otherwise it returns a
\* ring whose registry, index and partition table are empty; every ring that
\* serves a call has a non-zero config, and no step changes the config.
C13_Construction ==
    /\ [](/\ last.op = "new" =>
                /\ last.ret \in {"Ok", "InvalidConfig"}
                /\ last.ret = "InvalidConfig" <=>
                       (config.replication_factor = 0 \/ config.partition_count = 0)
                /\ last.ret = "Ok" =>
                       (/\ nodes = {}
                        /\ sorted_nodes_hash_set = EmptyMap
                        /\ partitions = EmptyMap)
          /\ last.op # "new" =>
                (config.replication_factor # 0 /\ config.partition_count # 0))
    /\ [][config' = config]_vars

\* a constructor call rejected for replication_factor = 0 alone
C13_Witness ==
    /\ last.op = "new"
    /\ last.ret = "InvalidConfig"
    /\ config.replication_factor = 0
    /\ config.partition_count # 0

Before(h, x, y) ==
    \/ x >= h /\ y < h
    \/ (x >= h) = (y >= h) /\ x < y

\* the first index entry of node n met on the walk from h
FirstEntry(h, n) ==
    CHOOSE x \in EntriesOf(n) : \A y \in EntriesOf(n) : y = x \/ Before(h, x, y)

\* C15: get_preference_list(key) lists index nodes by their first entry on
\* the walk upwards from hash(key) and around once: listed nodes are in walk
\* order, every unlisted node comes after all listed ones, the list has
\* min(replication_factor, nodes in the index) elements, and on a non-empty
\* index its first element is the node get_key(key) returns.
C15_PreferenceOrder ==
    last.op = "get_preference_list" =>
        LET h == hash_key(last.arg)
            r == last.ret
        IN  /\ Range(r) \subseteq IndexNodes
            /\ \A i, j \in 1..Len(r) :
                   i < j => Before(h, FirstEntry(h, r[i]), FirstEntry(h, r[j]))
            /\ \A n \in IndexNodes \ Range(r) : \A i \in 1..Len(r) :
                   Before(h, FirstEntry(h, r[i]), FirstEntry(h, n))
            /\ Len(r) = IF Cardinality(IndexNodes) < config.replication_factor
                        THEN Cardinality(IndexNodes)
                        ELSE config.replication_factor
            /\ IndexHashes # {} => (r # <<>> /\ get_key(last.arg) = Some(r[1]))

\* a list of two nodes whose walk passes the largest hash: the key hashes
\* above the first node's entry and below another entry
C15_Witness ==
    /\ last.op = "get_preference_list"
    /\ Len(last.ret) >= 2
    /\ FirstEntry(hash_key(last.arg), last.ret[1]) >= hash_key(last.arg)
    /\ FirstEntry(hash_key(last.arg), last.ret[2]) < hash_key(last.arg)

\* thread u has done some but not all iterations of its insert or remove loop
MidLoop(u) ==
    /\ pc[u] \in {"add_insert", "remove_entries"}
    /\ 0 < loop_i[u]
    /\ loop_i[u] < config.replication_factor

\* C16: while a lookup holds its read guard on the index, no add_node or
\* remove_node is part-way through its replica loop; when no two replica
\* hashes collide, the index the lookup reads holds for every node either
\* replication_factor entries or none, and virtual_nodes_per_node never
\* returns a count strictly between 0 and replication_factor.
C16_AllOrNothing ==
    /\ \A t \in Threads : pc[t] = "lookup_read" => \A u \in Threads : ~MidLoop(u)
    /\ \/ \A t \in Threads :
              /\ pc[t] = "lookup_read" =>
                     \A n \in ConcNodeIds :
                         Cardinality(EntriesOf(n)) \in {0, config.replication_factor}
              /\ (pc[t] = "returned" /\ call[t].op = "virtual_nodes_per_node") =>
                     \A id \in DOMAIN ret[t] :
                         ~(0 < ret[t][id] /\ ret[t][id] < config.replication_factor)
       \/ ~NoCollisions

\* virtual_nodes_per_node has returned a node with two replicas while
\* another thread's add_node or remove_node is in progress
C16_Witness ==
    /\ NoCollisions
    /\ config.replication_factor = 2
    /\ \E t, u \in Threads :
           /\ t # u
           /\ pc[t] = "returned"
           /\ call[t].op = "virtual_nodes_per_node"
           /\ DOMAIN ret[t] # {}
           /\ call[u].op \in Mutations
           /\ InProgress(u)

\* C17: an id that is not registered (removed and not added again, or never
\* added) owns no index entry and no partition, and the result of the latest
\* lookup does not contain it.
C17_RemovedIsGone ==
    \A id \in NodeIds \ nodes :
        /\ EntriesOf(id) = {}
        /\ \A p \in DOMAIN partitions : partitions[p] # id
        /\ last.op = "get_key" => last.ret # Some(id)
        /\ last.op = "get_preference_list" => id \notin Range(last.ret)
        /\ last.op = "virtual_nodes_per_node" => id \notin DOMAIN last.ret

\* a remove_node has just succeeded on a ring that keeps other nodes, under
\* a hasher for which replica hashes collide
C17_Witness ==
    /\ last.op = "remove_node"
    /\ last.ret = "Ok"
    /\ IndexNodes # {}
    /\ config.replication_factor = 2
    /\ ~NoCollisions

AddedOk ==
    /\ last'.op = "add_node"
    /\ last'.ret = "Ok"

\* C18: a successful add_node(n) leaves every key with the owner get_key gave
\* it before the call or gives it to n, and leaves every partition with its
\* owner or gives it to n (get_key(k) is OwnerIn at hash(k) in every state).
C18_JoinMinimalDisruption ==
    /\ [](\A k \in Keys : get_key(k) = OwnerIn(sorted_nodes_hash_set, hash_key(k)))
    /\ [][AddedOk =>
           /\ \A k \in Keys :
                  LET h == hash_key(k)
                  IN  \/ OwnerIn(sorted_nodes_hash_set', h) = OwnerIn(sorted_nodes_hash_set, h)
                      \/ OwnerIn(sorted_nodes_hash_set', h) = Some(last'.arg)
           /\ \A p \in PartitionIds :
                  /\ p \in DOMAIN partitions'
                  /\ \/ partitions'[p] = last'.arg
                     \/ p \in DOMAIN partitions /\ partitions'[p] = partitions[p]]_vars

\* a third node has joined under a hasher for which replica hashes collide,
\* and it owns some but not all keys
C18_Witness ==
    /\ last.op = "add_node"
    /\ last.ret = "Ok"
    /\ Cardinality(nodes) >= 3
    /\ ~NoCollisions
    /\ \E k1, k2 \in Keys :
           /\ get_key(k1) = Some(last.arg)
           /\ get_key(k2) # Some(last.arg)

\* the index entries not owned by n are kept with their owner, no entry
\* appears, and a key hashing onto a kept entry resolves to its owner
OthersKeepEntries(n) ==
    /\ \A x \in IndexHashes :
           sorted_nodes_hash_set[x] # n =>
               /\ x \in DOMAIN sorted_nodes_hash_set'
               /\ sorted_nodes_hash_set'[x] = sorted_nodes_hash_set[x]
    /\ \A x \in DOMAIN sorted_nodes_hash_set' :
           x \in IndexHashes /\ sorted_nodes_hash_set'[x] = sorted_nodes_hash_set[x]
    /\ \A k \in Keys :
           LET h == hash_key(k)
           IN  (h \in IndexHashes /\ sorted_nodes_hash_set[h] # n) =>
                   OwnerIn(sorted_nodes_hash_set', h) = Some(sorted_nodes_hash_set[h])

\* C19 (as stated): a successful remove_node(id) deletes only index entries
\* owned by id; every entry of another node stays, with its hash and owner,
\* and is still found by get_key at its hash.
C19_OnlyOwnEntries ==
    [][RemovedOk => OthersKeepEntries(last'.arg)]_vars

\* C19 (amended): the same, for hashers under which no two (node id, replica
\* index) pairs hash to the same value.
C19_OnlyOwnEntriesNoCollisions ==
    [][RemovedOk => (OthersKeepEntries(last'.arg) \/ ~NoCollisions)]_vars

\* a node has been removed from a collision-free ring in which every
\* remaining node holds its two replica entries
C19_Witness ==
    /\ last.op = "remove_node"
    /\ last.ret = "Ok"
    /\ NoCollisions
    /\ config.replication_factor = 2
    /\ Cardinality(nodes) >= 2
    /\ \A m \in nodes : Cardinality(EntriesOf(m)) = 2

\* C20: when remove_node(id) succeeds right after a successful add_node of
\* the same id, and no replica hash of id was in the index before that
\* add_node, the registry, the index and the partition table are again what
\* they were before the add_node.
C20_RoundTrip ==
    (last.op = "remove_node" /\ last.ret = "Ok" /\ last.undoes # None) =>
        LET before == last.undoes[1]
        IN  (\A i \in 0..(config.replication_factor - 1) :
                 hash_with_replica_idx(last.arg, i) \notin DOMAIN before[2])
                => ring = before

\* an add_node / remove_node round trip has ended on a ring that held other
\* nodes, none of whose entries sits at a replica hash of the id
C20_Witness ==
    /\ last.op = "remove_node"
    /\ last.ret = "Ok"
    /\ last.undoes # None
    /\ config.replication_factor = 2
    /\ nodes # {}
    /\ \A i \in 0..(config.replication_factor - 1) :
           hash_with_replica_idx(last.arg, i) \notin DOMAIN (last.undoes[1])[2]

\* the index determined by a set S of registered ids alone: one entry at
\* every replica hash of every id of S, owned by an id that hashes there
IndexOf(S) ==
    [h \in {hash_with_replica_idx(id, i) :
                id \in S, i \in 0..(config.replication_factor - 1)} |->
        CHOOSE id \in S :
            \E i \in 0..(config.replication_factor - 1) :
                hash_with_replica_idx(id, i) = h]

\* C21: when no two (node id, replica index) pairs hash to the same value,
\* the index and the partition table are determined by the config, the
\* hasher and the set of registered ids, whatever sequence of add_node and
\* remove_node calls led there, and so is the result of get_key and of
\* get_preference_list.
C21_OrderIndependent ==
    \/ /\ sorted_nodes_hash_set = IndexOf(nodes)
       /\ partitions = distribute_partitions(IndexOf(nodes))
       /\ last.op = "get_key" =>
              last.ret = OwnerIn(IndexOf(nodes), hash_key(last.arg))
       /\ last.op = "get_preference_list" =>
              last.ret = preference_loop(
                             IndexOf(nodes),
                             range_from(IndexOf(nodes), hash_key(last.arg))
                                 \o range_to(IndexOf(nodes), hash_key(last.arg)),
                             {}, <<>>)
    \/ ~NoCollisions

\* two nodes are left after a removal, a set of nodes that several orders of
\* add_node and remove_node calls produce, under a collision-free hasher
C21_Witness ==
    /\ NoCollisions
    /\ last.op = "remove_node"
    /\ last.ret = "Ok"
    /\ Cardinality(nodes) = 2
    /\ config.replication_factor = 2
    /\ config.partition_count = 2

\* the only calls made so far are one add_node(id) by each thread
TwoAdds(id) ==
    /\ invocations = MaxThreads
    /\ \A t \in Threads : call[t] = [op |-> "add_node", arg |-> id]

\* an add_node(id) has returned Ok, and the only other calls made so far are
\* one remove_node(id) by each thread
TwoRemoves(id) ==
    /\ invocations = MaxThreads + 1
    /\ add_stage[id] = "returned"
    /\ \A t \in Threads : call[t] = [op |-> "remove_node", arg |-> id]

AllReturned == \A t \in Threads : pc[t] = "returned"

\* exactly one thread got the result Ok and every other thread got err
OneOk(err) ==
    \E t \in Threads :
        /\ ret[t] = "Ok"
        /\ \A u \in Threads \ {t} : ret[u] = err

\* calls are in progress and each of them waits for a lock that only another
\* of them can release or stop requesting
Stuck ==
    /\ \E t \in Threads : InProgress(t)
    /\ \A t \in Threads : InProgress(t) => Blocked(t)

\* C22, the part about results: once the add_node(id) calls of all threads
\* have returned, one returned Ok and the others DuplicateNode, id is
\* registered once and the index holds the entries of one insertion; once
\* the remove_node(id) calls of all threads have returned, one returned Ok
\* and the others NodeNotFound and id is gone.
C22_OneWinner ==
    \A id \in ConcNodeIds :
        /\ (TwoAdds(id) /\ AllReturned) =>
               /\ OneOk("DuplicateNode")
               /\ nodes = {id}
               /\ sorted_nodes_hash_set = insert_replicas(EmptyMap, id, 0)
        /\ (TwoRemoves(id) /\ AllReturned) =>
               /\ OneOk("NodeNotFound")
               /\ nodes = {}
               /\ sorted_nodes_hash_set = EmptyMap

\* C22: of the add_node calls with the same id made by the threads that
\* share the ring exactly one succeeds and the others fail with
\* DuplicateNode, and of the remove_node calls for the same registered id
\* exactly one succeeds and the others fail with NodeNotFound: the results
\* are as in C22_OneWinner, and the calls never reach a state in which none
\* of them can return.
C22_AtomicDuplicateCheck ==
    /\ C22_OneWinner
    /\ \A id \in ConcNodeIds : (TwoAdds(id) \/ TwoRemoves(id)) => ~Stuck

====
